---------------------------- MODULE Spec2Model ----------------------------
(***************************************************************************)
(* AirAware: the bounding-box resolver, the air-quality pipeline and the   *)
(* weather summary of src/agent_tools (the crewai tools) and               *)
(* src/agent_tools_cai_studio (the CAI-studio tools), as state machines.   *)
(*                                                                         *)
(* Numbers.  Coordinates and offsets are fixed-point, in thousandths of a  *)
(* degree; cos() is a table in thousandths; a mean is an exact reduced     *)
(* fraction.  A missing number (pandas NaN) is the empty sequence, a       *)
(* present one a one-element sequence.                                     *)
(***************************************************************************)
EXTENDS Integers, Sequences, FiniteSets, TLC

VARIABLES
    impl,             \* which implementation runs: "crewai" or "cai"
    \* ---- the resolver (BoundingBoxExtractorTool._run / run_tool)
    geo_pc,           \* "idle" | "returned" | "raised"
    geo_location,     \* the location name of the call
    geo_response,     \* what the geocoding service answered
    geo_return,       \* the value returned (or the exception raised)
    \* ---- the air-quality pipeline (AirQualityAnalysisTool._run / run_tool)
    pc,               \* position in the run
    inp,              \* the arguments of the call
    i,                \* index of the (bbox, location) pair of the main loop
    requests,         \* site-registry requests issued so far
    location_ids,     \* the site ids of the current pair
    fetch_pos,        \* <<site index, day index>> of the fetch loops
    consolidated_df,  \* rows gathered by the running fetch
    failed_locations, \* the fetch's local list of failed ids
    attempts,         \* what the running fetch did, unit by unit
    stdout,           \* the last "Locations with no data or errors" print
    aggregated,       \* the frame aggregate_data returned for the pair
    all_data,         \* the frames appended so far
    faults,           \* requests that failed so far in the run
    result,           \* what the run returned, or the exception it raised
    \* ---- the weather summary (HistoricalWeatherTool._run / run_tool)
    w_pc,             \* "idle" | "waiting" | "returned"
    w_args,           \* the arguments of the call
    w_requests,       \* weather-archive requests issued so far
    w_response,       \* what the weather archive answered
    w_return,         \* the value returned
    \* ---- aggregate_data called on its own
    agg_pc,           \* "idle" | "returned"
    agg_df,           \* the readings passed in
    agg_parameters,   \* the allow-list passed in
    agg_out,          \* the frame returned
    \* ---- the input parser (InputParserTool._run / run_tool)
    p_pc,             \* "idle" | "returned"
    p_args,           \* the arguments of the call
    p_return          \* the value returned

geo_vars == <<geo_pc, geo_location, geo_response, geo_return>>
aq_vars == <<pc, inp, i, requests, location_ids, fetch_pos, consolidated_df,
             failed_locations, attempts, stdout, aggregated, all_data, faults,
             result>>
w_vars == <<w_pc, w_args, w_requests, w_response, w_return>>
agg_vars == <<agg_pc, agg_df, agg_parameters, agg_out>>
p_vars == <<p_pc, p_args, p_return>>
vars == <<impl, geo_vars, aq_vars, w_vars, agg_vars, p_vars>>

Impls == {"crewai", "cai"}

\* Bounds of the model.
MaxResults == 2
MaxPairs == 2
MaxFaults == 2

(***************************************************************************)
(* Arithmetic helpers.                                                     *)
(***************************************************************************)
Abs(x) == IF x < 0 THEN -x ELSE x

\* math.cos of a latitude given in thousandths of a degree, in thousandths;
\* tabulated at the whole multiples of five degrees.
Cos1000(lat) ==
    LET d == Abs(lat) \div 1000
    IN CASE d = 0 -> 1000 [] d = 5 -> 996 [] d = 10 -> 985 [] d = 15 -> 966
         [] d = 20 -> 940 [] d = 25 -> 906 [] d = 30 -> 866 [] d = 35 -> 819
         [] d = 40 -> 766 [] d = 45 -> 707 [] d = 50 -> 643 [] d = 55 -> 574
         [] d = 60 -> 500 [] d = 65 -> 423 [] d = 70 -> 342 [] d = 75 -> 259
         [] d = 80 -> 174 [] d = 85 -> 87

(***************************************************************************)
(* The resolver.                                                           *)
(***************************************************************************)
\* A numeric string of the geocoding response, and one float() rejects.
NumStr(milli) == [kind |-> "num", milli |-> milli]
JunkStr == [kind |-> "text", milli |-> 0]

\* float(s): the number of a numeric string; no value for any other.
ParseFloat(s) == IF s.kind = "num" THEN <<s.milli>> ELSE <<>>

\* Boxes the geocoding service knows, in its order south, north, west, east
\* (thousandths of a degree): three regions, a single point, and a region
\* across the anti-meridian, whose western edge is the greater longitude.
GeoBoxSeq == << <<20000, 30000, 70000, 80000>>,
                <<10000, 20000, 75000, 85000>>,
                <<40000, 50000, 1000, 3000>>,
                <<15000, 15000, 80000, 80000>>,
                <<-20000, -10000, 170000, -170000>> >>
GeoBoxes == { GeoBoxSeq[k] : k \in 1..Len(GeoBoxSeq) }

GeoResult(b) == [has_bbox |-> TRUE,
                 boundingbox |-> <<NumStr(b[1]), NumStr(b[2]), NumStr(b[3]), NumStr(b[4])>>]

\* Results whose shape the code does not expect: no boundingbox field, a
\* boundingbox of three entries, an entry that is no number.
OddResults ==
    { [has_bbox |-> FALSE, boundingbox |-> <<>>],
      [has_bbox |-> TRUE,
       boundingbox |-> <<NumStr(20000), NumStr(30000), NumStr(70000)>>],
      [has_bbox |-> TRUE,
       boundingbox |-> <<NumStr(20000), JunkStr, NumStr(70000), NumStr(80000)>>] }

GeoResults == { GeoResult(b) : b \in GeoBoxes } \cup OddResults

TransportFailures == {"timeout", "connection", "http_error"}

GeoResponses ==
    { [status |-> f, data |-> <<>>] : f \in TransportFailures }
    \cup { [status |-> "ok", data |-> d] :
             d \in UNION { [1..n -> GeoResults] : n \in 0..MaxResults } }

LocationNames == {"Delhi", "Chennai"}

\* The margin _run passes, and the helper's own default.
RunKmExpansion == 15
DefaultKmExpansion == 50

\* A deliberately wrong variant: both latitudes move north, both longitudes east.
ExpandBoundingBoxShifted(south_lat, west_lon, north_lat, east_lon, km_expansion) ==
    LET lat_offset == (km_expansion * 1000) \div 111
        lon_offset == (km_expansion * 1000 * 1000)
                        \div (111 * Cos1000((south_lat + north_lat) \div 2))
    IN << south_lat + lat_offset,
          west_lon + lon_offset,
          north_lat + lat_offset,
          east_lon + lon_offset >>

\* _expand_bounding_box / expand_bounding_box.
ExpandBoundingBox(south_lat, west_lon, north_lat, east_lon, km_expansion) ==
    LET lat_offset == (km_expansion * 1000) \div 111
        lon_offset == (km_expansion * 1000 * 1000)
                        \div (111 * Cos1000((south_lat + north_lat) \div 2))
    IN << south_lat - lat_offset,
          west_lon - lon_offset,
          north_lat + lat_offset,
          east_lon + lon_offset >>

\* The shapes of a returned value: a list (crewai), a string (crewai), a
\* dict with one key (cai); or an exception that leaves the call.
BoxValue(impl_, box) ==
    IF impl_ = "crewai"
    THEN [type |-> "list", key |-> "", text |-> "", box |-> box, exc |-> ""]
    ELSE [type |-> "dict", key |-> "expanded_bounding_box", text |-> "",
          box |-> box, exc |-> ""]

MessageValue(impl_, text) ==
    IF impl_ = "crewai"
    THEN [type |-> "str", key |-> "", text |-> text, box |-> <<>>, exc |-> ""]
    ELSE [type |-> "dict", key |-> "error", text |-> text, box |-> <<>>, exc |-> ""]

Raised(exc) == [type |-> "raise", key |-> "", text |-> "", box |-> <<>>, exc |-> exc]

\* The return of the else branch: data is empty.
NotFoundReturn(impl_) == MessageValue(impl_, "Bounding box not found for location: ")

\* A deliberately wrong variant: the except branch answers with the not-found message.
TransportErrorAsNotFound(impl_) == NotFoundReturn(impl_)

\* The return of the except branch: requests.exceptions.RequestException.
TransportErrorReturn(impl_) == MessageValue(impl_, "Error fetching bounding box for ")

\* A deliberately wrong variant: the box is taken from the last result.
ResultIndexLast(data) == Len(data)

\* Which result of the response the box is taken from: data[0].
ResultIndex(data) == 1

\* The four float() conversions of bbox[0..3], in the order of the code; the
\* first that fails decides the exception.
BboxFault(bbox) ==
    LET bad == { k \in 1..4 : k > Len(bbox) \/ ParseFloat(bbox[k]) = <<>> }
    IN IF bad = {} THEN ""
       ELSE LET k == CHOOSE x \in bad : \A y \in bad : x <= y
            IN IF k > Len(bbox) THEN "IndexError" ELSE "ValueError"

\* The body of the if-data branch.
FoundReturn(impl_, data) ==
    LET r == data[ResultIndex(data)]
    IN IF ~r.has_bbox THEN Raised("KeyError")
       ELSE IF BboxFault(r.boundingbox) # "" THEN Raised(BboxFault(r.boundingbox))
       ELSE LET bbox == r.boundingbox
                south_lat == ParseFloat(bbox[1])[1]
                north_lat == ParseFloat(bbox[2])[1]
                west_lon == ParseFloat(bbox[3])[1]
                east_lon == ParseFloat(bbox[4])[1]
            IN BoxValue(impl_, ExpandBoundingBox(south_lat, west_lon, north_lat,
                                                 east_lon, RunKmExpansion))

\* BoundingBoxExtractorTool._run / BoundingBoxExtractor.run_tool.
ResolverRun(impl_, response) ==
    IF response.status # "ok" THEN TransportErrorReturn(impl_)
    ELSE IF response.data # <<>> THEN FoundReturn(impl_, response.data)
    ELSE NotFoundReturn(impl_)

GeoRun ==
    /\ geo_pc = "idle"
    /\ \E im \in Impls, location \in LocationNames, response \in GeoResponses :
         /\ impl' = im
         /\ geo_location' = location
         /\ geo_response' = response
         /\ geo_return' = ResolverRun(im, response)
         /\ geo_pc' = IF ResolverRun(im, response).type = "raise"
                      THEN "raised" ELSE "returned"
    /\ UNCHANGED <<aq_vars, w_vars, agg_vars, p_vars>>

(***************************************************************************)
(* The world of the air-quality pipeline: the site registry, the archive.  *)
(***************************************************************************)
\* The last calendar day the model's date strings name; day 1 is
\* 2023-01-31, day 2 is 2023-02-01, and so on.
MaxDay == 2

\* strftime("%Y"), ("%m"), ("%d") of day d.
YearOf(d) == 2023
MonthOf(d) == IF d = 1 THEN 1 ELSE 2
DayOfMonth(d) == IF d = 1 THEN 31 ELSE d - 1

\* A well-formed YYYY-MM-DD string naming day d, and a string strptime and
\* pandas both reject.
DateStr(d) == [fmt |-> "ymd", day |-> d]
JunkDate == [fmt |-> "junk", day |-> 0]

\* datetime.strptime(s, "%Y-%m-%d").date(): no value stands for ValueError.
Strptime(s) == IF s.fmt = "ymd" THEN <<s.day>> ELSE <<>>

\* Monitoring sites: id |-> <<latitude, longitude>>.
SiteIds == {1, 2, 3, 4}
SiteLat(id) == CASE id = 1 -> 25000 [] id = 2 -> 28000 [] id = 3 -> 15000
                 [] id = 4 -> 22000
SiteLon(id) == CASE id = 1 -> 72000 [] id = 2 -> 78000 [] id = 3 -> 80000
                 [] id = 4 -> 75000

RECURSIVE SortedSeq(_)
\* The elements of a finite set of integers, ascending.
SortedSeq(S) ==
    IF S = {} THEN <<>>
    ELSE LET m == CHOOSE x \in S : \A y \in S : x <= y
         IN <<m>> \o SortedSeq(S \ {m})

\* The registry's answer to bbox=a,b,c,d: it reads a as west, b as south,
\* c as east and d as north, and lists the sites inside, by id ascending.
RegistryResults(bbox) ==
    SortedSeq({ id \in SiteIds : /\ bbox[1] <= SiteLon(id) /\ SiteLon(id) <= bbox[3]
                                 /\ bbox[2] <= SiteLat(id) /\ SiteLat(id) <= bbox[4] })

\* The page size of the registry request (limit=100 of the URL), scaled to
\* the few sites of the model.
PageLimit == 2

\* get_location_ids: the one request the code makes asks for page=1 with
\* limit=PageLimit, so "results" holds the first PageLimit sites at most.
RegistryPage(bbox) ==
    LET all == RegistryResults(bbox)
    IN SubSeq(all, 1, IF Len(all) <= PageLimit THEN Len(all) ELSE PageLimit)

\* A missing cell of a CSV file (pandas NaN) in a text column.
NA == "NaN"

Reading(day, hour, parameter, value, units) ==
    [datetime |-> <<day, hour>>, parameter |-> parameter, value |-> value,
     units |-> units]

\* The archive: the days each site has an object for, and the rows of the
\* object of (site, day).
ArchiveDays(site) ==
    CASE site = 1 -> {1, 2}
      [] site = 2 -> {1, 3}
      [] site = 3 -> {2}
      [] site = 4 -> {1}

ArchiveRows(site, day) ==
    CASE site = 1 /\ day = 1 ->
           << Reading(1, 1, "pm25", <<10>>, "ug/m3"),
              Reading(1, 13, "pm25", <<20>>, "ug/m3") >>
      [] site = 1 /\ day = 2 ->
           << Reading(2, 0, "pm25", <<>>, "ug/m3"),
              Reading(2, 5, "o3", <<7>>, NA),
              Reading(2, 6, "pm25", <<8>>, "ug/m3") >>
      [] site = 2 /\ day = 1 ->
           << Reading(1, 2, "o3", <<4>>, "ppm"),
              Reading(1, 3, "pm25", <<12>>, "mg/m3") >>
      [] site = 2 /\ day = 3 ->
           << Reading(3, 4, "pm25", <<9>>, "ug/m3") >>
      [] site = 3 /\ day = 2 ->
           << Reading(2, 9, "o3", <<6>>, "ppb"),
              Reading(2, 10, "o3", <<9>>, "ppb") >>
      [] site = 4 /\ day = 1 ->
           << Reading(1, 7, "pm25", <<30>>, "ug/m3") >>
      [] OTHER -> <<>>

\* The parameter names of the archive, in the order groupby sorts them.
AllParameters == <<"o3", "pm25">>

\* list_objects_v2 under the prefix of (site, year, month): the days of
\* the keys listed.
ListedDays(site, year, month) ==
    { d \in ArchiveDays(site) : YearOf(d) = year /\ MonthOf(d) = month }

\* key.endswith(f"{year}{month}{day}.csv.gz")
KeyMatches(k, year, month, day) ==
    YearOf(k) = year /\ MonthOf(k) = month /\ DayOfMonth(k) = day

(***************************************************************************)
(* aggregate_data.                                                         *)
(***************************************************************************)
RECURSIVE GCD(_, _)
GCD(a, b) == IF b = 0 THEN a ELSE GCD(b, a % b)

\* sum / count as an exact fraction in lowest terms.
Frac(sum, count) ==
    LET g == GCD(sum, count) IN [num |-> sum \div g, den |-> count \div g]

RECURSIVE SumOf(_)
SumOf(vals) == IF vals = <<>> THEN 0 ELSE Head(vals) + SumOf(Tail(vals))

\* A deliberately wrong variant: the sum of the values present over the number of all rows.
ColumnMeanOverRows(rows) ==
    LET present == SelectSeq(rows, LAMBDA r : r.value # <<>>)
    IN IF present = <<>> THEN <<>>
       ELSE <<Frac(SumOf([k \in 1..Len(present) |-> present[k].value[1]]),
                   Len(rows))>>

\* The "mean" aggregation of a column: NaN cells are skipped; the mean of
\* no value at all is NaN.
ColumnMean(rows) ==
    LET present == SelectSeq(rows, LAMBDA r : r.value # <<>>)
    IN IF present = <<>> THEN <<>>
       ELSE <<Frac(SumOf([k \in 1..Len(present) |-> present[k].value[1]]),
                   Len(present))>>

\* A deliberately wrong variant: the last cell of the column that is not NaN.
ColumnLast(rows) ==
    LET present == SelectSeq(rows, LAMBDA r : r.units # NA)
    IN IF present = <<>> THEN NA ELSE present[Len(present)].units

\* The "first" aggregation of a column: the first cell that is not NaN.
ColumnFirst(rows) ==
    LET present == SelectSeq(rows, LAMBDA r : r.units # NA)
    IN IF present = <<>> THEN NA ELSE present[1].units

\* pd.Grouper(key='datetime', freq='D'): the bin of a timestamp.
DayBin(datetime) == datetime[1]

\* The rows of one group of groupby(['parameter', Grouper]).
GroupRows(df, parameter, day) ==
    SelectSeq(df, LAMBDA r : r.parameter = parameter /\ DayBin(r.datetime) = day)

\* if parameters: df = df[df['parameter'].isin(parameters)]
FilterParameters(df, parameters) ==
    IF parameters.given /\ parameters.list # <<>>
    THEN SelectSeq(df, LAMBDA r : \E k \in 1..Len(parameters.list) :
                                      parameters.list[k] = r.parameter)
    ELSE df

\* .dropna(): a row with a NaN in any column goes.
DropNa(rows) == SelectSeq(rows, LAMBDA r : r.value # <<>> /\ r.units # NA)

\* The aggregate row of one group; date is datetime.dt.date.
GroupRow(df, parameter, day) ==
    [parameter |-> parameter,
     value |-> ColumnMean(GroupRows(df, parameter, day)),
     units |-> ColumnFirst(GroupRows(df, parameter, day)),
     date |-> day]

\* The groups of one parameter, by day ascending.
ParameterRows(df, parameter) ==
    LET days == SortedSeq({ DayBin(df[k].datetime) :
                              k \in { j \in 1..Len(df) : df[j].parameter = parameter } })
    IN [k \in 1..Len(days) |-> GroupRow(df, parameter, days[k])]

RECURSIVE GroupByAgg(_, _)
\* groupby(...).agg(...): one row per group, sorted by parameter, then day.
GroupByAgg(df, params) ==
    IF params = <<>> THEN <<>>
    ELSE ParameterRows(df, Head(params)) \o GroupByAgg(df, Tail(params))

\* The columns of the frame aggregate_data returns: reset_index puts the
\* group keys first, date is added last and datetime deleted.
AggregateColumns == <<"parameter", "value", "units", "date">>

\* aggregate_data(df, parameters).
AggregateData(df, parameters) ==
    [columns |-> AggregateColumns,
     rows |-> DropNa(GroupByAgg(FilterParameters(df, parameters), AllParameters))]

\* A deliberately wrong variant: every frame is tagged with the first name.
WithFirstLocation(frame, location) ==
    [columns |-> Append(frame.columns, "location"),
     rows |-> [k \in 1..Len(frame.rows) |->
                 [parameter |-> frame.rows[k].parameter,
                  value |-> frame.rows[k].value,
                  units |-> frame.rows[k].units,
                  date |-> frame.rows[k].date,
                  location |-> "Delhi"]]]

\* aggregated_daily_data["location"] = location
WithLocation(frame, location) ==
    [columns |-> Append(frame.columns, "location"),
     rows |-> [k \in 1..Len(frame.rows) |->
                 [parameter |-> frame.rows[k].parameter,
                  value |-> frame.rows[k].value,
                  units |-> frame.rows[k].units,
                  date |-> frame.rows[k].date,
                  location |-> location]]]

\* pd.DataFrame(columns=["date", "parameter", "unit", "value", "location"])
EmptyResultColumns == <<"date", "parameter", "unit", "value", "location">>

RECURSIVE ConcatRows(_)
ConcatRows(frames) ==
    IF frames = <<>> THEN <<>>
    ELSE Head(frames).rows \o ConcatRows(Tail(frames))

\* The value a run returns: pd.concat(all_data, ignore_index=True) of
\* frames that all carry the same columns, or the empty frame.
CombineAll(frames) ==
    IF frames # <<>>
    THEN [kind |-> "frame", columns |-> frames[1].columns,
          rows |-> ConcatRows(frames), exc |-> ""]
    ELSE [kind |-> "frame", columns |-> EmptyResultColumns, rows |-> <<>>,
          exc |-> ""]

RunRaised(exc) == [kind |-> "raise", columns |-> <<>>, rows |-> <<>>, exc |-> exc]
NoResult == [kind |-> "none", columns |-> <<>>, rows |-> <<>>, exc |-> ""]

(***************************************************************************)
(* The air-quality pipeline: AirQualityAnalysisTool._run / run_tool.       *)
(***************************************************************************)
\* The boxes the resolver returns for the boxes the geocoder knows (south,
\* west, north, east): what the callers pass on as bounding_boxes.
ResolvedBox(b) == FoundReturn("crewai", <<GeoResult(b)>>).box

\* What a caller holds for a location the resolver found no box for: the
\* resolver's message in place of the four numbers. It is kept as the
\* string's first characters; indexing it gives characters (crewai, a
\* str), or it cannot be indexed by a number at all (cai, a dict).
NotFoundValue == <<"B", "o", "u", "n", "d">>

\* Whether a value of bounding_boxes is a list of four numbers.
IsBox(bbox) == Len(bbox) = 4

\* bounding_boxes: lists of up to MaxPairs boxes, one box repeated or the
\* boxes in turn from any first one; and such lists with the resolver's
\* message in one place.
BoxLists ==
    UNION { { [k \in 1..n |-> ResolvedBox(GeoBoxSeq[f])] : f \in 1..3 }
            \cup { [k \in 1..n |-> ResolvedBox(GeoBoxSeq[((f + k - 2) % 3) + 1])] :
                      f \in 1..3 }
            \cup { [k \in 1..n |-> IF k = e THEN NotFoundValue
                                    ELSE ResolvedBox(GeoBoxSeq[f])] :
                      f \in 1..2, e \in 1..n } : n \in 0..MaxPairs }

\* locations: lists of up to MaxPairs names, one name repeated or two names
\* in turn.
NameLists ==
    UNION { { [k \in 1..n |-> "Delhi"],
              [k \in 1..n |-> IF k % 2 = 1 THEN "Delhi" ELSE "Chennai"] } :
            n \in 0..MaxPairs }

\* (start_date, end_date): ranges from day 1, one range that ends before it
\* starts, and a string that is no date on either side.
DatePairs ==
    { <<DateStr(1), DateStr(d)>> : d \in 1..MaxDay }
    \cup { <<DateStr(MaxDay), DateStr(1)>>,
           <<JunkDate, DateStr(1)>>, <<DateStr(1), JunkDate>> }

\* aq_parameters: None, [], and a list naming one parameter.
NoParameters == [given |-> FALSE, list |-> <<>>]
ParameterLists == { NoParameters,
                    [given |-> TRUE, list |-> <<>>],
                    [given |-> TRUE, list |-> <<"pm25">>] }

Min(a, b) == IF a <= b THEN a ELSE b

\* A deliberately wrong variant: the last pair of the zip is left out.
ZipLenShort(args) ==
    IF Min(Len(args.bounding_boxes), Len(args.locations)) = 0 THEN 0
    ELSE Min(Len(args.bounding_boxes), Len(args.locations)) - 1

\* zip(bounding_boxes, locations): the number of pairs.
ZipLen(args) == Min(Len(args.bounding_boxes), Len(args.locations))

\* A deliberately wrong variant: the box passed on in the order it came in.
BboxOpenaqFormatUnchanged(bbox) == bbox

\* bbox_openaq_format = [bbox[1], bbox[0], bbox[3], bbox[2]]
BboxOpenaqFormat(bbox) == <<bbox[2], bbox[1], bbox[4], bbox[3]>>

\* params = {"bbox": f"{bbox[0]},{bbox[1]},{bbox[2]},{bbox[3]}"}
BboxParam(bbox) == <<bbox[1], bbox[2], bbox[3], bbox[4]>>

\* A deliberately wrong variant: a range whose ends are swapped when the
\* start is after the end.
DateRangeEitherWay(start, end) ==
    IF start <= end THEN [k \in 1..(end - start + 1) |-> start + k - 1]
    ELSE [k \in 1..(start - end + 1) |-> end + k - 1]

\* The days of pd.date_range(start, end): both ends included, none when
\* start is after end.
DateRange(start, end) == [k \in 1..(end - start + 1) |-> start + k - 1]

\* Whether the dates of the call can be read as dates.
DatesParse(args) ==
    Strptime(args.start_date) # <<>> /\ Strptime(args.end_date) # <<>>

RunDays(args) ==
    DateRange(Strptime(args.start_date)[1], Strptime(args.end_date)[1])

\* A deliberately wrong variant: the day loop outside, the site loop inside.
FetchUnitsByDay(ids, days) ==
    [k \in 1..(Len(ids) * Len(days)) |->
        [site |-> ids[((k - 1) % Len(ids)) + 1],
         day |-> days[((k - 1) \div Len(ids)) + 1]]]

\* The (site, day) units of the two nested loops of fetch_sensor_data, in
\* the order the loops visit them.
FetchUnits(ids, days) ==
    [k \in 1..(Len(ids) * Len(days)) |->
        [site |-> ids[((k - 1) \div Len(days)) + 1],
         day |-> days[((k - 1) % Len(days)) + 1]]]

Faults == {"none", "list", "get", "decode"}

\* What one pass of the inner loop body comes to, given where (if anywhere)
\* a request of the pass raises.
UnitOutcome(site, day, fault) ==
    LET listed == ListedDays(site, YearOf(day), MonthOf(day))
        matches == { k \in listed :
                       KeyMatches(k, YearOf(day), MonthOf(day), DayOfMonth(day)) }
    IN CASE fault = "list" -> "failed"
         [] fault # "list" /\ listed = {} -> "no_contents"
         [] fault # "list" /\ listed # {} /\ matches = {} -> "no_key"
         [] fault \in {"get", "decode"} /\ matches # {} -> "failed"
         [] OTHER -> "ok"

\* A deliberately wrong variant: a pass that fails leaves an empty frame behind.
UnitFrameLosing(df, site, day, outcome) ==
    IF outcome = "ok" THEN df \o ArchiveRows(site, day)
    ELSE IF outcome = "failed" THEN <<>> ELSE df

\* consolidated_df after the pass.
UnitFrame(df, site, day, outcome) ==
    IF outcome = "ok" THEN df \o ArchiveRows(site, day) ELSE df

\* failed_locations after the pass: the crewai tool appends the id when the
\* listing has no Contents and in its except branch; the cai tool keeps no list.
UnitFailed(impl_, failed, site, outcome) ==
    IF impl_ = "crewai" /\ outcome \in {"failed", "no_contents"}
    THEN Append(failed, site) ELSE failed

\* A deliberately wrong variant: a unit whose retrieval failed is tried again.
NextUnitRetry(pos, outcome) == IF outcome = "failed" THEN pos ELSE pos + 1

\* The position after a pass: the next unit, whatever the pass came to.
NextUnit(pos, outcome) == pos + 1

(***************************************************************************)
(* The weather summary: HistoricalWeatherTool._run / run_tool of           *)
(* weather_tool.py.                                                        *)
(***************************************************************************)
\* The longest "time" array of a response of the model.
MaxTimes == 2

\* The six daily metrics of the request, and the key of the summary each
\* one is reported under.
Metrics == {"temperature_2m_mean", "temperature_2m_max", "temperature_2m_min",
            "precipitation_sum", "wind_speed_10m_mean", "relative_humidity_2m_mean"}

SummaryKey(metric) ==
    CASE metric = "temperature_2m_mean" -> "temperature_mean_2m"
      [] metric = "temperature_2m_max" -> "temperature_max_2m"
      [] metric = "temperature_2m_min" -> "temperature_min_2m"
      [] metric = "precipitation_sum" -> "precipitation_sum"
      [] metric = "wind_speed_10m_mean" -> "wind_speed_10m_mean"
      [] metric = "relative_humidity_2m_mean" -> "relative_humidity_2m_mean"

SummaryKeys == { SummaryKey(m) : m \in Metrics }

\* The metric a key of the summary reports.
MetricOf(key) == CHOOSE m \in Metrics : SummaryKey(m) = key

\* A cell of a summary row: a number of the response, or the string "N/A".
Num(n) == [na |-> FALSE, v |-> n]
NotAvailable == [na |-> TRUE, v |-> 0]

\* The value the archive reports for a metric on the k-th date.
MetricValue(metric, k) ==
    k + 10 * (CASE metric = "temperature_2m_mean" -> 1
                [] metric = "temperature_2m_max" -> 2
                [] metric = "temperature_2m_min" -> 3
                [] metric = "precipitation_sum" -> 4
                [] metric = "wind_speed_10m_mean" -> 5
                [] metric = "relative_humidity_2m_mean" -> 6)

\* An array of a "daily" section: absent, or present with n entries; the
\* shape of an array is its length, or -1 for an absent one.
Absent == [present |-> FALSE, vals |-> <<>>]
TimeArray(n) == [present |-> TRUE, vals |-> [k \in 1..n |-> DateStr(k)]]
MetricArray(metric, n) ==
    [present |-> TRUE, vals |-> [k \in 1..n |-> MetricValue(metric, k)]]

ArrayShapes == (-1)..MaxTimes

TimeOf(shape) == IF shape < 0 THEN Absent ELSE TimeArray(shape)
ArrayOf(metric, shape) ==
    IF shape < 0 THEN Absent ELSE MetricArray(metric, shape)

\* "daily" sections: every metric array has one shape, but for one metric
\* that has another (or the same).
DailySections ==
    { [kind |-> "object", time |-> TimeOf(t),
       metrics |-> [m \in Metrics |-> IF m = odd THEN ArrayOf(m, b) ELSE ArrayOf(m, a)]] :
        t \in ArrayShapes, a \in ArrayShapes, b \in ArrayShapes, odd \in Metrics }

NoDaily == [kind |-> "none", time |-> Absent, metrics |-> [m \in Metrics |-> Absent]]
NullDaily == [kind |-> "null", time |-> Absent, metrics |-> [m \in Metrics |-> Absent]]

\* What the weather archive can answer: a transport failure, a body that
\* is no JSON, a JSON body that is no object, an object without "daily",
\* an object whose "daily" is null, an object with a "daily" section.
WeatherResponses ==
    { [status |-> f, body |-> "none", daily |-> NoDaily] : f \in TransportFailures }
    \cup { [status |-> "ok", body |-> b, daily |-> NoDaily] :
             b \in {"not_json", "null", "array", "object"} }
    \cup { [status |-> "ok", body |-> "object", daily |-> NullDaily] }
    \cup { [status |-> "ok", body |-> "object", daily |-> d] : d \in DailySections }

NoWeatherResponse == [status |-> "none", body |-> "none", daily |-> NoDaily]

\* bounding_box: the boxes the resolver returns, and lists that are no box.
WeatherBoxes ==
    { ResolvedBox(GeoBoxSeq[k]) : k \in 1..Len(GeoBoxSeq) }
    \cup { <<>>, <<19865, 69851, 30135>>, <<19865, 69851, 30135, 80149, 0>> }

\* (start_date, end_date): passed on as they are.
WeatherDatePairs == { <<DateStr(1), DateStr(MaxDay)>>, <<JunkDate, DateStr(1)>> }

\* The values the tool returns: the rows of the summary (the crewai tool
\* returns str() of the list, the cai tool the list), or a message (the
\* crewai tool returns the string, the cai tool a dict with the key
\* "error"); an exception that leaves the call.
WeatherRows(impl_, rows) ==
    [kind |-> "rows", form |-> IF impl_ = "crewai" THEN "str" ELSE "list",
     rows |-> rows, text |-> ""]

WeatherMessage(impl_, text) ==
    [kind |-> "message", form |-> IF impl_ = "crewai" THEN "str" ELSE "dict",
     rows |-> <<>>, text |-> text]

NoWeatherReturn == [kind |-> "none", form |-> "", rows |-> <<>>, text |-> ""]

BadBoxReturn(impl_) ==
    WeatherMessage(impl_, "Bounding box must contain exactly 4 float values")

\* A deliberately wrong variant: rows are returned for a response without "daily".
NoDailyReturnsRow(impl_) ==
    WeatherRows(impl_, << [date |-> DateStr(1),
                           cells |-> [key \in SummaryKeys |-> NotAvailable]] >>)

\* The return of the branch "daily" not in data.
NoDailyReturn(impl_) == WeatherMessage(impl_, "No daily weather data found")

\* The return of except requests.exceptions.RequestException.
RequestErrorReturn(impl_) ==
    WeatherMessage(impl_, IF impl_ = "crewai"
                          THEN "Error fetching weather data from Open-Meteo"
                          ELSE "HTTP error occurred")

\* The return of except Exception.
UnexpectedReturn(impl_) == WeatherMessage(impl_, "An unexpected error occurred")

\* A deliberately wrong variant: the box is read as (south, north, west, east).
WeatherCenterOfPairs(bounding_box) ==
    [latitude |-> Frac(bounding_box[1] + bounding_box[2], 2),
     longitude |-> Frac(bounding_box[3] + bounding_box[4], 2)]

\* center_latitude, center_longitude: exact halves of the sums.
WeatherCenter(bounding_box) ==
    [latitude |-> Frac(bounding_box[1] + bounding_box[3], 2),
     longitude |-> Frac(bounding_box[2] + bounding_box[4], 2)]

\* daily_data.get("time", [])
Times(daily) == IF daily.time.present THEN daily.time.vals ELSE <<>>

\* crewai: daily_data.get(metric, []) and "x[i] if i < len(x) else 'N/A'".
GuardedCell(daily, metric, k) ==
    LET x == IF daily.metrics[metric].present THEN daily.metrics[metric].vals ELSE <<>>
    IN IF k <= Len(x) THEN Num(x[k]) ELSE NotAvailable

\* cai: daily_data.get(metric, ["N/A"]), the list that is then indexed by i.
DefaultedCells(daily, metric) ==
    IF daily.metrics[metric].present
    THEN [k \in 1..Len(daily.metrics[metric].vals) |-> Num(daily.metrics[metric].vals[k])]
    ELSE <<NotAvailable>>

\* cai: whether some x[i] of the loop is out of range (IndexError).
IndexFault(daily) ==
    \E k \in 1..Len(Times(daily)) : \E m \in Metrics : k > Len(DefaultedCells(daily, m))

\* The rows of weather_summary after the loop over range(len(times)).
SummaryRows(impl_, daily) ==
    [k \in 1..Len(Times(daily)) |->
        [date |-> Times(daily)[k],
         cells |-> [key \in SummaryKeys |->
                      IF impl_ = "crewai"
                      THEN GuardedCell(daily, MetricOf(key), k)
                      ELSE DefaultedCells(daily, MetricOf(key))[k]]]]

\* The try block from response.json() on, for a body that was received;
\* json_exc is the class json() raises for a body that is no JSON.
WeatherResult(impl_, response, json_exc) ==
    CASE response.status # "ok" -> RequestErrorReturn(impl_)
      [] response.status = "ok" /\ response.body = "not_json" ->
           IF json_exc = "RequestException" THEN RequestErrorReturn(impl_)
           ELSE UnexpectedReturn(impl_)
      [] response.status = "ok" /\ response.body = "null" -> UnexpectedReturn(impl_)
      [] response.status = "ok" /\ response.body = "array" -> NoDailyReturn(impl_)
      [] response.status = "ok" /\ response.body = "object" ->
           IF response.daily.kind = "none" THEN NoDailyReturn(impl_)
           ELSE IF response.daily.kind = "null" THEN UnexpectedReturn(impl_)
           ELSE IF impl_ = "cai" /\ IndexFault(response.daily)
                THEN UnexpectedReturn(impl_)
           ELSE WeatherRows(impl_, SummaryRows(impl_, response.daily))

(***************************************************************************)
(* aggregate_data called on its own, on any small frame of readings.       *)
(***************************************************************************)
\* The longest frame of readings passed to aggregate_data on its own.
MaxReadings == 2

\* The cells a reading of such a frame is made of.
InputDays == {1, 2}
InputParameters == {"o3", "pm25"}
InputValues == {<<>>, <<10>>, <<20>>}
InputUnits == {NA, "ug/m3", "ppm"}

\* The hour of the k-th reading of a frame of n: the readings come in the
\* order of their timestamps, or in the reverse order.
InputHour(k, n, ascending) == IF ascending THEN k ELSE n + 1 - k

\* df: the frame of n readings with these days, parameters, values and
\* units, in or against the order of their timestamps.
InputFrame(n, day, par, val, un, asc) ==
    [k \in 1..n |-> Reading(day[k], InputHour(k, n, asc), par[k], val[k], un[k])]

(***************************************************************************)
(* The input parser. Its dates are the strings the caller wrote, compared  *)
(* as strings: a string is a sequence of characters here.                  *)
(***************************************************************************)
DigitChars == <<"0", "1", "2", "3", "4", "5", "6", "7", "8", "9">>

IsDigit(c) == \E k \in 1..10 : DigitChars[k] = c

\* The code point of a character.
Ord(c) ==
    IF IsDigit(c) THEN 47 + (CHOOSE k \in 1..10 : DigitChars[k] = c)
    ELSE IF c = "-" THEN 45
    ELSE IF c = "n" THEN 110
    ELSE IF c = "o" THEN 111
    ELSE 115

\* a < b on two strings: by code point at the first place they differ, a
\* proper prefix before the longer string.
RECURSIVE StrLess(_, _)
StrLess(a, b) ==
    IF b = <<>> THEN FALSE
    ELSE IF a = <<>> THEN TRUE
    ELSE IF Ord(Head(a)) # Ord(Head(b)) THEN Ord(Head(a)) < Ord(Head(b))
    ELSE StrLess(Tail(a), Tail(b))

\* A deliberately wrong variant: start_date > end_date.
StrGreater(a, b) == StrLess(b, a)

\* start_date >= end_date
StrGe(a, b) == ~StrLess(a, b)

\* The decimal digits of a number.
RECURSIVE Decimal(_)
Decimal(n) ==
    IF n < 10 THEN <<DigitChars[n + 1]>>
    ELSE Decimal(n \div 10) \o <<DigitChars[(n % 10) + 1]>>

\* A date as a caller writes it: YYYY-MM-DD with month and day padded to two
\* digits, or with the padding left out.
FormatDate(y, m, d, padded) ==
    LET field(n) == IF padded /\ n < 10 THEN <<"0">> \o Decimal(n) ELSE Decimal(n)
    IN Decimal(y) \o <<"-">> \o field(m) \o <<"-">> \o field(d)

\* The fields of a string between its hyphens.
RECURSIVE Split(_, _)
Split(s, cur) ==
    IF s = <<>> THEN <<cur>>
    ELSE IF Head(s) = "-" THEN <<cur>> \o Split(Tail(s), <<>>)
    ELSE Split(Tail(s), Append(cur, Head(s)))

\* The number a string of digits stands for.
RECURSIVE DigitsValue(_)
DigitsValue(f) ==
    IF f = <<>> THEN 0
    ELSE DigitsValue(SubSeq(f, 1, Len(f) - 1)) * 10 + (Ord(f[Len(f)]) - 48)

DaysInMonth(y, m) ==
    IF m = 2
    THEN (IF y % 4 = 0 /\ (y % 100 # 0 \/ y % 400 = 0) THEN 29 ELSE 28)
    ELSE IF m \in {4, 6, 9, 11} THEN 30 ELSE 31

\* datetime.strptime(s, "%Y-%m-%d"): <<the date>> as year, month, day, or
\* <<>> for ValueError. %Y takes four digits, %m and %d one or two.
StrptimeYmd(s) ==
    LET fs == Split(s, <<>>)
        digits(f) == f # <<>> /\ \A k \in 1..Len(f) : IsDigit(f[k])
    IN IF /\ Len(fs) = 3
          /\ \A k \in 1..3 : digits(fs[k])
          /\ Len(fs[1]) = 4 /\ Len(fs[2]) <= 2 /\ Len(fs[3]) <= 2
          /\ DigitsValue(fs[2]) \in 1..12
          /\ DigitsValue(fs[3]) \in 1..DaysInMonth(DigitsValue(fs[1]), DigitsValue(fs[2]))
       THEN << <<DigitsValue(fs[1]), DigitsValue(fs[2]), DigitsValue(fs[3])>> >>
       ELSE <<>>

\* start_dt > end_dt on two dates.
DateAfter(a, b) ==
    \/ a[1] > b[1]
    \/ a[1] = b[1] /\ a[2] > b[2]
    \/ a[1] = b[1] /\ a[2] = b[2] /\ a[3] > b[3]

\* The date check of main.py: both strings parse and the start is not after
\* the end; otherwise the program prints the error and exits.
MainAcceptsDates(start, end) ==
    /\ StrptimeYmd(start) # <<>>
    /\ StrptimeYmd(end) # <<>>
    /\ ~DateAfter(StrptimeYmd(start)[1], StrptimeYmd(end)[1])

\* The date strings given to the parser: days of January and October 2023
\* with and without padding, and a string that is no date.
ParserDateStrings ==
    { FormatDate(2023, m, d, padded) : m \in {1, 10}, d \in {5, 10}, padded \in BOOLEAN }
    \cup { <<"s", "o", "o", "n">> }

\* The aq_parameters given to the parser.
ParserParameterLists == { <<>>, <<"pm25">>, <<"pm25", "pm10">> }

NoSummary == [locations |-> <<>>, start_date |-> <<>>, end_date |-> <<>>,
              parameters |-> <<>>]

\* The input parser has returned nothing yet.
NoParserReturn == [kind |-> "none", form |-> "", key |-> "", text |-> <<>>,
                   summary |-> NoSummary]

\* return "Error: ..." (crewai) or {"error": "..."} (cai)
ParserError(im, message) ==
    IF im = "crewai"
    THEN [kind |-> "return", form |-> "str", key |-> "", text |-> <<"Error: ", message>>,
          summary |-> NoSummary]
    ELSE [kind |-> "return", form |-> "dict", key |-> "error", text |-> <<message>>,
          summary |-> NoSummary]

\* return f"Validated Input: {input_summary}" (crewai) or
\* {"validated_input": input_summary} (cai)
ParserValidated(im, args) ==
    LET input_summary == [locations |-> args.locations,
                          start_date |-> args.start_date,
                          end_date |-> args.end_date,
                          parameters |-> args.aq_parameters]
    IN IF im = "crewai"
       THEN [kind |-> "return", form |-> "str", key |-> "",
             text |-> <<"Validated Input: ">>, summary |-> input_summary]
       ELSE [kind |-> "return", form |-> "dict", key |-> "validated_input",
             text |-> <<>>, summary |-> input_summary]

LocationMessage == "At least one location must be specified."
ParameterMessage == "At least one air quality parameter must be specified."
DateMessage == "The start date must be before the end date."

\* InputParserTool._run / run_tool
InputParserRun(im, args) ==
    IF args.locations = <<>> THEN ParserError(im, LocationMessage)
    ELSE IF args.aq_parameters = <<>> THEN ParserError(im, ParameterMessage)
    ELSE IF StrGe(args.start_date, args.end_date) THEN ParserError(im, DateMessage)
    ELSE ParserValidated(im, args)

(***************************************************************************)
(* The state machine.                                                      *)
(***************************************************************************)
NoFrame == [columns |-> <<>>, rows |-> <<>>]

Init ==
    /\ impl = "crewai"
    /\ geo_pc = "idle"
    /\ geo_location = ""
    /\ geo_response = [status |-> "none", data |-> <<>>]
    /\ geo_return = Raised("")
    /\ pc = "idle"
    /\ inp = [bounding_boxes |-> <<>>, locations |-> <<>>,
              start_date |-> JunkDate, end_date |-> JunkDate,
              aq_parameters |-> NoParameters]
    /\ i = 0
    /\ requests = <<>>
    /\ location_ids = <<>>
    /\ fetch_pos = 0
    /\ consolidated_df = <<>>
    /\ failed_locations = <<>>
    /\ attempts = <<>>
    /\ stdout = <<>>
    /\ aggregated = NoFrame
    /\ all_data = <<>>
    /\ faults = 0
    /\ result = NoResult
    /\ w_pc = "idle"
    /\ w_args = [bounding_box |-> <<>>, start_date |-> JunkDate, end_date |-> JunkDate]
    /\ w_requests = <<>>
    /\ w_response = NoWeatherResponse
    /\ w_return = NoWeatherReturn
    /\ agg_pc = "idle"
    /\ agg_df = <<>>
    /\ agg_parameters = NoParameters
    /\ agg_out = NoFrame
    /\ p_pc = "idle"
    /\ p_args = [locations |-> <<>>, start_date |-> <<>>, end_date |-> <<>>,
                 aq_parameters |-> <<>>]
    /\ p_return = NoParserReturn

\* The call, up to the main loop: the crewai tool parses both dates first.
StartRun ==
    /\ pc = "idle"
    /\ \E im \in Impls, boxes \in BoxLists, names \in NameLists,
          dates \in DatePairs, ps \in ParameterLists :
         LET args == [bounding_boxes |-> boxes, locations |-> names,
                      start_date |-> dates[1], end_date |-> dates[2],
                      aq_parameters |-> ps]
         IN /\ impl' = im
            /\ inp' = args
            /\ IF im = "crewai" /\ ~DatesParse(args)
               THEN /\ pc' = "done"
                    /\ result' = RunRaised("ValueError")
                    /\ i' = i
               ELSE /\ pc' = "pair"
                    /\ result' = result
                    /\ i' = 1
    /\ all_data' = <<>>
    /\ faults' = 0
    /\ UNCHANGED <<w_vars, agg_vars, p_vars, geo_vars, requests, location_ids, fetch_pos, consolidated_df,
                   failed_locations, attempts, stdout, aggregated>>

\* One turn of the main loop up to the call of fetch_sensor_data: the
\* registry request of pair i, which may fail. A value that is no box
\* raises KeyError when indexed (cai, a dict), or is sent as four
\* characters, which the registry rejects with an HTTP error (crewai, a
\* str). The crewai tool catches what the turn raises and goes on to the
\* next pair; the cai tool has no handler.
PairStep ==
    /\ pc = "pair"
    /\ i <= ZipLen(inp)
    /\ LET bbox == inp.bounding_boxes[i]
           param == BboxParam(BboxOpenaqFormat(bbox))
       IN IF ~IsBox(bbox) /\ impl = "cai"
          THEN /\ pc' = "done"
               /\ result' = RunRaised("KeyError")
               /\ UNCHANGED <<i, requests, faults, location_ids, fetch_pos,
                              consolidated_df, failed_locations, aggregated>>
          ELSE \E ok \in BOOLEAN :
                 /\ ok => IsBox(bbox)
                 /\ requests' = Append(requests, [pair |-> i, bbox |-> param, ok |-> ok])
                 /\ IF ~ok
                    THEN \* raise_for_status raises
                         /\ IsBox(bbox) => faults < MaxFaults
                         /\ faults' = IF IsBox(bbox) THEN faults + 1 ELSE faults
                         /\ IF impl = "crewai"
                            THEN pc' = "pair" /\ i' = i + 1 /\ result' = result
                            ELSE pc' = "done" /\ i' = i /\ result' = RunRaised("HTTPError")
                         /\ UNCHANGED <<location_ids, fetch_pos, consolidated_df,
                                        failed_locations, aggregated>>
                    ELSE /\ faults' = faults
                         /\ location_ids' = RegistryPage(param)
                         /\ consolidated_df' = <<>>
                         /\ failed_locations' = <<>>
                         /\ aggregated' = NoFrame
                         /\ fetch_pos' = 1
                         /\ i' = i
                         /\ IF RegistryPage(param) # <<>> /\ ~DatesParse(inp)
                            THEN \* cai: pd.date_range raises on the first site
                                 pc' = "done" /\ result' = RunRaised("ValueError")
                            ELSE pc' = "fetch" /\ result' = result
    /\ attempts' = <<>>
    /\ UNCHANGED <<impl, geo_vars, w_vars, agg_vars, p_vars, inp, stdout, all_data>>

CurrentUnits ==
    IF location_ids = <<>> THEN <<>> ELSE FetchUnits(location_ids, RunDays(inp))

\* One pass of the inner loop of fetch_sensor_data.
FetchUnit ==
    /\ pc = "fetch"
    /\ fetch_pos <= Len(CurrentUnits)
    /\ LET u == CurrentUnits[fetch_pos]
       IN \E fault \in Faults :
            LET outcome == UnitOutcome(u.site, u.day, fault)
            IN /\ fault \in {"get", "decode"} => outcome = "failed"
               /\ fault # "none" => faults < MaxFaults
               /\ faults' = IF fault = "none" THEN faults ELSE faults + 1
               /\ consolidated_df' = UnitFrame(consolidated_df, u.site, u.day, outcome)
               /\ failed_locations' = UnitFailed(impl, failed_locations, u.site, outcome)
               /\ attempts' = Append(attempts, [site |-> u.site, day |-> u.day,
                                                outcome |-> outcome])
               /\ fetch_pos' = NextUnit(fetch_pos, outcome)
    /\ UNCHANGED <<impl, geo_vars, w_vars, agg_vars, p_vars, pc, inp, i, requests, location_ids, stdout,
                   aggregated, all_data, result>>

\* A deliberately wrong variant: the list is dropped without the print.
PrintFailedNothing(out, failed) == out

\* What fetch_sensor_data prints of failed_locations before it returns.
PrintFailed(out, failed) == IF failed # <<>> THEN Append(out, failed) ELSE out

\* The end of fetch_sensor_data: the print, and the return of
\* consolidated_df alone; failed_locations ends with the call.
FetchReturn ==
    /\ pc = "fetch"
    /\ fetch_pos > Len(CurrentUnits)
    /\ stdout' = PrintFailed(stdout, failed_locations)
    /\ failed_locations' = <<>>
    /\ pc' = "aggregate"
    /\ UNCHANGED <<impl, geo_vars, w_vars, agg_vars, p_vars, inp, i, requests, location_ids, fetch_pos,
                   consolidated_df, attempts, aggregated, all_data, faults, result>>

\* The rest of the turn: aggregate, tag and append when the fetch
\* returned rows.
AggregateStep ==
    /\ pc = "aggregate"
    /\ IF consolidated_df # <<>>
       THEN /\ aggregated' = WithLocation(AggregateData(consolidated_df, inp.aq_parameters),
                                          inp.locations[i])
            /\ all_data' = Append(all_data, aggregated')
       ELSE UNCHANGED <<aggregated, all_data>>
    /\ i' = i + 1
    /\ pc' = "pair"
    /\ attempts' = <<>>
    /\ UNCHANGED <<impl, geo_vars, w_vars, agg_vars, p_vars, inp, requests, location_ids, fetch_pos,
                   consolidated_df, failed_locations, stdout, faults, result>>

\* After the loop: the return.
Combine ==
    /\ pc = "pair"
    /\ i > ZipLen(inp)
    /\ result' = CombineAll(all_data)
    /\ pc' = "done"
    /\ UNCHANGED <<impl, geo_vars, w_vars, agg_vars, p_vars, inp, i, requests, location_ids, fetch_pos,
                   consolidated_df, failed_locations, attempts, stdout,
                   aggregated, all_data, faults>>

Next == StartRun \/ PairStep \/ FetchUnit \/ FetchReturn \/ AggregateStep \/ Combine

Spec == Init /\ [][Next]_vars

NextResolver == GeoRun

SpecResolver == Init /\ [][NextResolver]_vars

\* The call up to requests.get: the length test, the centre, the request.
WeatherCall ==
    /\ w_pc = "idle"
    /\ \E im \in Impls, box \in WeatherBoxes, dates \in WeatherDatePairs :
         /\ impl' = im
         /\ w_args' = [bounding_box |-> box, start_date |-> dates[1],
                       end_date |-> dates[2]]
         /\ IF Len(box) # 4
            THEN /\ w_return' = BadBoxReturn(im)
                 /\ w_requests' = <<>>
                 /\ w_pc' = "returned"
            ELSE /\ w_return' = NoWeatherReturn
                 /\ w_requests' = << [latitude |-> WeatherCenter(box).latitude,
                                      longitude |-> WeatherCenter(box).longitude,
                                      start_date |-> dates[1],
                                      end_date |-> dates[2]] >>
                 /\ w_pc' = "waiting"
    /\ w_response' = NoWeatherResponse
    /\ UNCHANGED <<geo_vars, aq_vars, agg_vars, p_vars>>

\* The answer of the archive and the rest of the call.
WeatherRespond ==
    /\ w_pc = "waiting"
    /\ \E response \in WeatherResponses, json_exc \in {"RequestException", "ValueError"} :
         /\ w_response' = response
         /\ w_return' = WeatherResult(impl, response, json_exc)
    /\ w_pc' = "returned"
    /\ UNCHANGED <<impl, geo_vars, aq_vars, agg_vars, p_vars, w_args, w_requests>>

NextWeather == WeatherCall \/ WeatherRespond

SpecWeather == Init /\ [][NextWeather]_vars

\* A call of aggregate_data(df, parameters) on its own.
AggregateCall ==
    /\ agg_pc = "idle"
    /\ \E n \in 1..MaxReadings, ps \in ParameterLists, asc \in BOOLEAN :
         \E day \in [1..n -> InputDays], par \in [1..n -> InputParameters],
            val \in [1..n -> InputValues], un \in [1..n -> InputUnits] :
           LET df == InputFrame(n, day, par, val, un, asc)
           IN /\ agg_df' = df
              /\ agg_parameters' = ps
              /\ agg_out' = AggregateData(df, ps)
    /\ agg_pc' = "returned"
    /\ UNCHANGED <<impl, geo_vars, aq_vars, w_vars, p_vars>>

NextAggregate == AggregateCall

SpecAggregate == Init /\ [][NextAggregate]_vars

\* A call of the input parser.
ParserCall ==
    /\ p_pc = "idle"
    /\ \E im \in Impls, ls \in NameLists, ps \in ParserParameterLists,
          s \in ParserDateStrings, e \in ParserDateStrings :
         LET args == [locations |-> ls, start_date |-> s, end_date |-> e,
                      aq_parameters |-> ps]
         IN /\ impl' = im
            /\ p_args' = args
            /\ p_return' = InputParserRun(im, args)
    /\ p_pc' = "returned"
    /\ UNCHANGED <<geo_vars, aq_vars, w_vars, agg_vars>>

NextParser == ParserCall

SpecParser == Init /\ [][NextParser]_vars

(***************************************************************************)
(* The claims.                                                             *)
(***************************************************************************)
\* C1: every site-registry request carries the box of its pair, given as
\* (south, west, north, east), in the order west, south, east, north; for a
\* box the resolver returned for the geocoder's (s, n, w, e) these are the
\* expanded west, south, east and north.
C1_RegistryBboxOrder ==
    \A k \in 1..Len(requests) :
        LET b == inp.bounding_boxes[requests[k].pair]
            r == requests[k].bbox
        IN /\ r[1] = b[2] /\ r[2] = b[1] /\ r[3] = b[4] /\ r[4] = b[3]
           /\ \A g \in GeoBoxes :
                b = ResolverRun("crewai", [status |-> "ok", data |-> <<GeoResult(g)>>]).box
                => LET e == ExpandBoundingBox(g[1], g[3], g[2], g[4], RunKmExpansion)
                   IN /\ r = <<e[2], e[1], e[4], e[3]>>
                      /\ r[1] < g[3] /\ r[2] < g[1] /\ r[3] > g[4] /\ r[4] > g[2]

\* C1 witness: a registry request was made for a box the resolver returned,
\* and the registry found the sites inside it.
C1_Witness ==
    /\ pc = "fetch"
    /\ Len(requests) >= 1
    /\ inp.bounding_boxes[requests[1].pair] = ResolvedBox(GeoBoxSeq[1])
    /\ location_ids = <<1, 2>>

\* The rows of the units of a fetch that succeeded, in the order fetched.
RECURSIVE RowsOfSucceeded(_)
RowsOfSucceeded(as) ==
    IF as = <<>> THEN <<>>
    ELSE (IF Head(as).outcome = "ok"
          THEN ArchiveRows(Head(as).site, Head(as).day) ELSE <<>>)
         \o RowsOfSucceeded(Tail(as))

\* C2: whatever retrievals fail, the fetch visits every (site, day) of the
\* run, and what it has gathered (and in the end returns) is exactly the
\* readings of the units that succeeded: none is lost, none is added.
C2_FailuresIsolated ==
    /\ (pc \in {"fetch", "aggregate"})
         => consolidated_df = RowsOfSucceeded(attempts)
    /\ (pc = "aggregate" /\ location_ids # <<>>)
         => /\ Len(attempts) = Len(location_ids) * Len(RunDays(inp))
            /\ \A s \in 1..Len(location_ids) : \A d \in 1..Len(RunDays(inp)) :
                 \E k \in 1..Len(attempts) :
                    /\ attempts[k].site = location_ids[s]
                    /\ attempts[k].day = RunDays(inp)[d]

\* C2 witness: a fetch returned rows gathered both before and after a
\* retrieval that failed.
C2_Witness ==
    /\ pc = "aggregate"
    /\ \E j, k, l \in 1..Len(attempts) :
         /\ j < k /\ k < l
         /\ attempts[j].outcome = "ok"
         /\ attempts[k].outcome = "failed"
         /\ attempts[l].outcome = "ok"
    /\ consolidated_df # <<>>

\* The ids fetch_sensor_data of the crewai tool collects: one entry for each
\* unit whose retrieval raised or whose listing had no Contents.
FailedIds(as) ==
    LET hit == SelectSeq(as, LAMBDA a : a.outcome \in {"failed", "no_contents"})
    IN [k \in 1..Len(hit) |-> hit[k].site]

\* The failed identifiers a returned value carries with it.
ReturnedFailedIds(res) ==
    IF "failed_locations" \in DOMAIN res THEN res.failed_locations ELSE <<>>

C4_UniqueTriples ==
    (pc = "done" /\ result.kind = "frame")
        => \A j, k \in 1..Len(result.rows) :
             (/\ result.rows[j].location = result.rows[k].location
              /\ result.rows[j].date = result.rows[k].date
              /\ result.rows[j].parameter = result.rows[k].parameter) => j = k

\* The readings of consolidated_df that belong to an output row and have a
\* value: same parameter, timestamp on the row's day.
ValuedReadings(row) ==
    { k \in 1..Len(consolidated_df) :
        /\ consolidated_df[k].parameter = row.parameter
        /\ consolidated_df[k].datetime[1] = row.date
        /\ consolidated_df[k].value # <<>> }

RECURSIVE SumOver(_)
SumOver(K) ==
    IF K = {} THEN 0
    ELSE LET k == CHOOSE x \in K : TRUE
         IN consolidated_df[k].value[1] + SumOver(K \ {k})

\* C5: each output row of a pair is the one row of its (parameter, day),
\* and its value is the sum of the values of the group's readings divided
\* by their number (a reading without a value has none to contribute);
\* readings 10 and 20 of one parameter on one day give the value 15.
C5_ValueIsMean ==
    aggregated # NoFrame =>
        /\ \A j \in 1..Len(aggregated.rows) :
             LET row == aggregated.rows[j]
                 K == ValuedReadings(row)
             IN /\ K # {}
                /\ row.value # <<>>
                /\ row.value[1].den > 0
                /\ row.value[1].num * Cardinality(K) = row.value[1].den * SumOver(K)
                /\ \A k \in 1..Len(aggregated.rows) :
                     (aggregated.rows[k].parameter = row.parameter
                      /\ aggregated.rows[k].date = row.date) => k = j
        /\ consolidated_df = << Reading(1, 1, "pm25", <<10>>, "ug/m3"),
                               Reading(1, 13, "pm25", <<20>>, "ug/m3") >>
             => /\ Len(aggregated.rows) = 1
                /\ aggregated.rows[1].value = <<[num |-> 15, den |-> 1]>>
                /\ aggregated.rows[1].parameter = "pm25"
                /\ aggregated.rows[1].date = 1

\* C5 witness: a pair was aggregated whose rows include the mean 14 of
\* three readings taken at different hours of one day by two sites, and a
\* mean over a group in which one reading has no value.
C5_Witness ==
    /\ aggregated # NoFrame
    /\ \E j \in 1..Len(aggregated.rows) :
         /\ aggregated.rows[j].value = <<[num |-> 14, den |-> 1]>>
         /\ Cardinality(ValuedReadings(aggregated.rows[j])) = 3
    /\ \E j \in 1..Len(aggregated.rows) :
         /\ aggregated.rows[j].value = <<[num |-> 8, den |-> 1]>>
         /\ aggregated.rows[j].date = 2

\* C6 as stated: with an allow-list supplied (the empty list too) every
\* output parameter is in the list, and in any case every output parameter
\* occurs in the raw readings.
C6_AllowListSubset ==
    aggregated # NoFrame =>
        \A j \in 1..Len(aggregated.rows) :
            /\ inp.aq_parameters.given
                 => \E k \in 1..Len(inp.aq_parameters.list) :
                      inp.aq_parameters.list[k] = aggregated.rows[j].parameter
            /\ \E k \in 1..Len(consolidated_df) :
                 consolidated_df[k].parameter = aggregated.rows[j].parameter

ColumnSet(columns) == { columns[k] : k \in 1..Len(columns) }

FixedColumns == {"date", "parameter", "unit", "value", "location"}

\* C7 as stated: when no pair yields an aggregate row, the run returns a
\* frame of zero rows whose columns are exactly date, parameter, unit,
\* value, location.
C7_EmptySchema ==
    (/\ pc = "done"
     /\ result.kind = "frame"
     /\ \A k \in 1..Len(all_data) : all_data[k].rows = <<>>)
        => /\ result.rows = <<>>
           /\ Len(result.columns) = 5
           /\ ColumnSet(result.columns) = FixedColumns

\* C8 as stated: every frame a run returns, with rows or without, has the
\* columns date, parameter, unit, value, location.
C8_FixedColumns ==
    (pc = "done" /\ result.kind = "frame")
        => ColumnSet(result.columns) = FixedColumns

\* C9: when the geocoder answers with no result, or the request fails in
\* transport, the resolver raises nothing and returns a value that is no
\* box; the value for "no result" (its message starts "Bounding box not
\* found") is none a transport failure yields, and the other way round.
C9_FailuresReturnedDistinct ==
    (geo_pc # "idle" /\ (geo_response.status # "ok" \/ geo_response.data = <<>>))
        => /\ geo_pc = "returned"
           /\ geo_return.type \in {"str", "dict"}
           /\ geo_return.key # "expanded_bounding_box"
           /\ geo_return.box = <<>>
           /\ geo_response.status = "ok"
                => /\ geo_return.text = "Bounding box not found for location: "
                   /\ \A f \in TransportFailures :
                        ResolverRun(impl, [status |-> f, data |-> <<>>]) # geo_return
           /\ geo_response.status # "ok"
                => /\ geo_return.text = "Error fetching bounding box for "
                   /\ ResolverRun(impl, [status |-> "ok", data |-> <<>>]) # geo_return

\* C9 witness: the cai resolver returned after a request that failed with
\* an HTTP error status.
C9_Witness ==
    /\ geo_pc = "returned"
    /\ impl = "cai"
    /\ geo_response.status = "http_error"

\* A result of the geocoder with the shape the code expects.
WellFormedResult(r) ==
    /\ r.has_bbox
    /\ Len(r.boundingbox) = 4
    /\ \A k \in 1..4 : r.boundingbox[k].kind = "num"

GeoGiven == LET bb == geo_response.data[1].boundingbox
            IN <<bb[1].milli, bb[2].milli, bb[3].milli, bb[4].milli>>

\* The expansion is symmetric and outward: what south loses north gains,
\* what west loses east gains, and both amounts are positive.
SymmetricExpansion(given, box) ==
    /\ given[1] - box[1] = box[3] - given[2]
    /\ given[3] - box[2] = box[4] - given[4]
    /\ given[1] - box[1] > 0
    /\ given[3] - box[2] > 0

\* C11 as stated: every box the resolver returns has south < north and
\* west < east, and is a symmetric expansion of the geocoder's box.
C11_OrderedAndSymmetric ==
    (geo_pc = "returned" /\ geo_return.box # <<>>)
        => /\ geo_return.box[1] < geo_return.box[3]
           /\ geo_return.box[2] < geo_return.box[4]
           /\ SymmetricExpansion(GeoGiven, geo_return.box)

\* C11 as amended: every box the resolver returns is a symmetric outward
\* expansion of the geocoder's box; it has south < north when the geocoder's
\* box has south <= north, and west < east when the geocoder's box has
\* west <= east. The resolver does not reorder: the box of a region across
\* the anti-meridian (west > east by more than the two offsets) comes back
\* with west > east.
C11_SymmetricOrderKept ==
    (geo_pc = "returned" /\ geo_return.box # <<>>)
        => /\ SymmetricExpansion(GeoGiven, geo_return.box)
           /\ GeoGiven[1] <= GeoGiven[2] => geo_return.box[1] < geo_return.box[3]
           /\ GeoGiven[3] <= GeoGiven[4] => geo_return.box[2] < geo_return.box[4]
           /\ GeoGiven = GeoBoxSeq[5] => geo_return.box[2] > geo_return.box[4]

\* C11 witness: the resolver returned the box of a single point, which has
\* south < north and west < east only through the expansion.
C11_Witness ==
    /\ geo_pc = "returned"
    /\ geo_return.box # <<>>
    /\ GeoGiven = GeoBoxSeq[4]
    /\ geo_return.box[1] < 15000 /\ geo_return.box[3] > 15000
    /\ geo_return.box[2] < 80000 /\ geo_return.box[4] > 80000

\* The (site, day) units the running fetch has looked up, in order.
LookedUp == [k \in 1..Len(attempts) |-> [site |-> attempts[k].site,
                                        day |-> attempts[k].day]]

DiagnosedSites ==
    IF pc = "fetch" THEN { failed_locations[k] : k \in 1..Len(failed_locations) }
    ELSE IF stdout = <<>> THEN {}
    ELSE { stdout[Len(stdout)][k] : k \in 1..Len(stdout[Len(stdout)]) }

\* C13 as stated: every unit looked up without a failure for which the
\* archive holds no record of the day (no object in the month at all, or
\* objects of other days only) adds no reading, stops nothing, and its site
\* is in the diagnostics of the fetch.
C13_AbsenceRecorded ==
    (pc \in {"fetch", "aggregate"})
        => \A k \in 1..Len(attempts) :
             attempts[k].outcome \in {"no_contents", "no_key"}
                => /\ ArchiveRows(attempts[k].site, attempts[k].day) = <<>>
                   /\ consolidated_df = RowsOfSucceeded(attempts)
                   /\ fetch_pos > k
                   /\ attempts[k].site \in DiagnosedSites

\* The sites the registry places inside the box of the current pair.
SitesInBox == RegistryResults(BboxParam(BboxOpenaqFormat(inp.bounding_boxes[i])))

\* C14 as stated: when no request of the run failed, the frame a fetch
\* returns holds every reading the archive has, on the days of the range,
\* of every site the registry places inside the box, however many these are.
C14_EverySiteFetched ==
    (pc = "aggregate" /\ faults = 0)
        => \A s \in 1..Len(SitesInBox) : \A d \in 1..Len(RunDays(inp)) :
             LET rows == ArchiveRows(SitesInBox[s], RunDays(inp)[d])
             IN \A r \in 1..Len(rows) :
                  \E k \in 1..Len(consolidated_df) : consolidated_df[k] = rows[r]

\* The response carried a "daily" section (a JSON object).
HasDailySection ==
    /\ w_pc = "returned"
    /\ w_response.status = "ok"
    /\ w_response.body = "object"
    /\ w_response.daily.kind = "object"

\* C15 as stated: for a response with a "daily" section, either tool
\* returns one row per entry of "time", in order, row i dated time[i], and
\* each metric's cell is its i-th value when the array has one and "N/A"
\* when the array is absent or shorter.
C15_RowPerTimeEntry ==
    HasDailySection
        => LET daily == w_response.daily
               times == IF daily.time.present THEN daily.time.vals ELSE <<>>
           IN /\ w_return.kind = "rows"
              /\ Len(w_return.rows) = Len(times)
              /\ \A k \in 1..Len(w_return.rows) :
                   /\ w_return.rows[k].date = times[k]
                   /\ \A m \in Metrics :
                        w_return.rows[k].cells[SummaryKey(m)] =
                          IF daily.metrics[m].present /\ k <= Len(daily.metrics[m].vals)
                          THEN Num(daily.metrics[m].vals[k])
                          ELSE NotAvailable

\* C16: a call that got as far as the request always returns a value: a
\* message and no row for a transport failure, for a body that is no JSON
\* or no object, and for an object without a "daily" key (there the message
\* says that no daily weather data was found); rows are returned only for
\* a "daily" section, and then one row for every entry of "time", never
\* fewer.
C16_NoDailyNoRows ==
    w_pc = "returned"
        => /\ w_return.kind \in {"rows", "message"}
           /\ w_return.kind = "message" => (w_return.rows = <<>> /\ w_return.text # "")
           /\ w_return.kind = "rows"
                => /\ HasDailySection
                   /\ Len(w_return.rows) = Len(Times(w_response.daily))
           /\ (w_requests # <<>> /\ ~HasDailySection) => w_return.kind = "message"
           /\ (w_response.status = "ok" /\ w_response.body = "object"
               /\ w_response.daily.kind = "none")
                => w_return = WeatherMessage(impl, "No daily weather data found")

\* C16 witness: the cai tool returned its no-data message for an object
\* without "daily".
C16_Witness ==
    /\ w_pc = "returned"
    /\ impl = "cai"
    /\ w_response.status = "ok"
    /\ w_response.body = "object"
    /\ w_response.daily.kind = "none"
    /\ w_return.form = "dict"
    /\ w_return.text = "No daily weather data found"

\* C17: a call with a box of four numbers (south, west, north, east) makes
\* exactly one request, at latitude (south + north) / 2 and longitude
\* (west + east) / 2 (twice the latitude is south + north exactly); a call
\* with a list of another length returns an error message and makes none.
C17_CentroidQuery ==
    w_pc # "idle"
        => LET b == w_args.bounding_box
           IN /\ Len(b) = 4
                   => /\ Len(w_requests) = 1
                      /\ w_requests[1].latitude.num * 2
                           = (b[1] + b[3]) * w_requests[1].latitude.den
                      /\ w_requests[1].longitude.num * 2
                           = (b[2] + b[4]) * w_requests[1].longitude.den
                      /\ w_requests[1].latitude.den \in {1, 2}
                      /\ w_requests[1].longitude.den \in {1, 2}
              /\ Len(b) # 4
                   => /\ w_requests = <<>>
                      /\ w_pc = "returned"
                      /\ w_return.kind = "message"
                      /\ w_return.text = "Bounding box must contain exactly 4 float values"
              /\ b = <<19865, 69851, 30135, 80149>>
                   => /\ w_requests[1].latitude = [num |-> 25000, den |-> 1]
                      /\ w_requests[1].longitude = [num |-> 75000, den |-> 1]

\* C17 witness: the request for the box (19.865, 69.851, 30.135, 80.149)
\* went out at latitude 25 and longitude 75 and was answered with rows.
C17_Witness ==
    /\ w_pc = "returned"
    /\ w_args.bounding_box = <<19865, 69851, 30135, 80149>>
    /\ Len(w_requests) = 1
    /\ w_requests[1].latitude = [num |-> 25000, den |-> 1]
    /\ w_requests[1].longitude = [num |-> 75000, den |-> 1]
    /\ w_return.kind = "rows"
    /\ Len(w_return.rows) = MaxTimes

\* C18 as stated: with a start or end date that is no YYYY-MM-DD date, no
\* registry request and no archive lookup is made, and the run ends with an
\* error and no result frame, in either tool.
C18_DatesValidatedFirst ==
    (pc # "idle" /\ ~DatesParse(inp))
        => /\ requests = <<>>
           /\ attempts = <<>>
           /\ all_data = <<>>
           /\ pc = "done" => result.kind = "raise"

\* C19 as stated: a run given an empty list of bounding boxes makes no
\* request and ends with an error, not with the empty frame a run returns
\* that found no data.
C19_EmptyBoxListRejected ==
    (pc = "done" /\ inp.bounding_boxes = <<>>)
        => /\ requests = <<>>
           /\ attempts = <<>>
           /\ result.kind = "raise"
           /\ result # CombineAll(<<>>)

\* The pairs of the run whose value is no box, or whose registry request
\* failed.
FailedPairs ==
    { k \in 1..ZipLen(inp) :
        \/ ~IsBox(inp.bounding_boxes[k])
        \/ \E r \in 1..Len(requests) : requests[r].pair = k /\ ~requests[r].ok }

\* C20 as stated: a run with valid dates in which the resolver's message
\* stands for the box of a pair, or the registry request of a pair fails,
\* still takes every pair in turn and returns a frame, whose rows are of
\* pairs that did not fail, in either tool.
C20_LocationFailureIsolated ==
    (pc = "done" /\ DatesParse(inp) /\ ZipLen(inp) >= 2 /\ FailedPairs # {})
        => /\ result.kind = "frame"
           /\ i = ZipLen(inp) + 1
           /\ result.rows = ConcatRows(all_data)
           /\ \A r \in 1..Len(result.rows) :
                \E k \in 1..ZipLen(inp) \ FailedPairs :
                   inp.locations[k] = result.rows[r].location

\* C21 as stated: when the first result of a non-empty response lacks the
\* boundingbox field, has fewer than four entries in it, or has an entry
\* that is no number, the resolver raises nothing and returns a value that
\* is no box.
C21_ShapeErrorsReturned ==
    (/\ geo_pc # "idle"
     /\ geo_response.status = "ok"
     /\ geo_response.data # <<>>
     /\ ~WellFormedResult(geo_response.data[1]))
        => /\ geo_pc = "returned"
           /\ geo_return.type \in {"str", "dict"}
           /\ geo_return.box = <<>>

\* The readings of the frame passed in that the allow-list lets through.
KeptReadings == FilterParameters(agg_df, agg_parameters)

\* The (parameter, day) groups of the readings let through.
InputGroups ==
    { <<KeptReadings[k].parameter, DayBin(KeptReadings[k].datetime)>> :
        k \in 1..Len(KeptReadings) }

\* The readings of one group, in input order.
ReadingsOf(g) == GroupRows(KeptReadings, g[1], g[2])

\* The rows of the returned frame that are of one group.
RowsOf(g) ==
    { r \in 1..Len(agg_out.rows) :
        agg_out.rows[r].parameter = g[1] /\ agg_out.rows[r].date = g[2] }

\* C22 as stated: for a frame with exactly one reading, with a value, for
\* each (parameter, day), and no allow-list, the returned frame has one row
\* per reading, with the reading's parameter, day, value and unit.
C22_DailyInputUnchanged ==
    (/\ agg_pc = "returned"
     /\ ~agg_parameters.given
     /\ \A g \in InputGroups : Len(ReadingsOf(g)) = 1
     /\ \A k \in 1..Len(agg_df) : agg_df[k].value # <<>>)
        => /\ Len(agg_out.rows) = Len(agg_df)
           /\ \A k \in 1..Len(agg_df) :
                \E r \in 1..Len(agg_out.rows) :
                   /\ agg_out.rows[r].parameter = agg_df[k].parameter
                   /\ agg_out.rows[r].date = agg_df[k].datetime[1]
                   /\ agg_out.rows[r].value = <<[num |-> agg_df[k].value[1], den |-> 1]>>
                   /\ agg_out.rows[r].units = agg_df[k].units

\* C26 as stated: every group with at least one reading that has a value,
\* whatever the units of its readings, has exactly one row in the returned
\* frame, and a group without any value has none.
C26_OmittedOnlyWithoutValue ==
    agg_pc = "returned"
        => \A g \in InputGroups :
             IF \E k \in 1..Len(ReadingsOf(g)) : ReadingsOf(g)[k].value # <<>>
             THEN Cardinality(RowsOf(g)) = 1
             ELSE RowsOf(g) = {}

\* The readings of a group that have a unit, and those that have a value, in
\* input order.
WithUnits(g) == SelectSeq(ReadingsOf(g), LAMBDA r : r.units # NA)
WithValue(g) == SelectSeq(ReadingsOf(g), LAMBDA r : r.value # <<>>)

\* The group of a row of the returned frame.
GroupOf(row) == <<row.parameter, row.date>>

\* C27 as stated: the unit of each row of the returned frame is the unit
\* of the first reading, in input order, of its group.
C27_UnitOfFirstReading ==
    agg_pc = "returned"
        => \A r \in 1..Len(agg_out.rows) :
             agg_out.rows[r].units = ReadingsOf(GroupOf(agg_out.rows[r]))[1].units

\* C27 as amended: the unit of each row of the returned frame is the unit
\* of the first reading, in input order (not in order of time), of its
\* group that has a unit; readings without a unit are passed over. The
\* units of the group are not compared: whatever they are, the row's value
\* is the sum of the values of the group over their number; readings of 10
\* in ug/m3 and 20 in ppm on one day give one row, 15 ug/m3.
C27_UnitOfFirstWithUnit ==
    agg_pc = "returned"
        => /\ \A r \in 1..Len(agg_out.rows) :
                LET g == GroupOf(agg_out.rows[r])
                    vals == WithValue(g)
                IN /\ WithUnits(g) # <<>>
                   /\ agg_out.rows[r].units = WithUnits(g)[1].units
                   /\ vals # <<>>
                   /\ agg_out.rows[r].value[1].num * Len(vals)
                        = agg_out.rows[r].value[1].den
                            * SumOf([k \in 1..Len(vals) |-> vals[k].value[1]])
           /\ \A h \in {1, 2} :
                agg_df = << Reading(1, h, "pm25", <<10>>, "ug/m3"),
                            Reading(1, 3 - h, "pm25", <<20>>, "ppm") >>
                  => agg_out.rows = << [parameter |-> "pm25",
                                        value |-> <<[num |-> 15, den |-> 1]>>,
                                        units |-> "ug/m3", date |-> 1] >>

\* C27 witness: a frame whose two readings of one day have different units,
\* the later one first in the frame, came back as one row with the mean of
\* both values and the unit of the first in the frame.
C27_Witness ==
    /\ agg_pc = "returned"
    /\ agg_df = << Reading(1, 2, "pm25", <<10>>, "ug/m3"),
                   Reading(1, 1, "pm25", <<20>>, "ppm") >>
    /\ Len(agg_out.rows) = 1
    /\ agg_out.rows[1].units = "ug/m3"
    /\ agg_out.rows[1].value = <<[num |-> 15, den |-> 1]>>

\* The rows of a tagged frame without their location.
Untagged(frame) ==
    [k \in 1..Len(frame.rows) |->
        [parameter |-> frame.rows[k].parameter, value |-> frame.rows[k].value,
         units |-> frame.rows[k].units, date |-> frame.rows[k].date]]

\* C23: whenever a frame is added to all_data it is the aggregate of the
\* readings fetched for the current pair i, it has a location column, and
\* every row of it carries locations[i]; the merged output is these frames
\* one after the other, so each of its rows carries the name of the pair
\* it was computed for.
C23_RowsTaggedWithPairName ==
    /\ [](pc = "done" /\ result.kind = "frame"
            => /\ result.rows = ConcatRows(all_data)
               /\ \A r \in 1..Len(result.rows) :
                    \E k \in 1..ZipLen(inp) : result.rows[r].location = inp.locations[k])
    /\ [][(pc = "aggregate" /\ all_data' # all_data)
            => LET f == all_data'[Len(all_data')]
               IN /\ all_data' = Append(all_data, f)
                  /\ f.columns[Len(f.columns)] = "location"
                  /\ Untagged(f) = AggregateData(consolidated_df, inp.aq_parameters).rows
                  /\ \A r \in 1..Len(f.rows) : f.rows[r].location = inp.locations[i]]_vars

\* C23 witness: a run over two pairs with different names returned rows of
\* both, those of the first pair first.
C23_Witness ==
    /\ pc = "done"
    /\ result.kind = "frame"
    /\ inp.locations = <<"Delhi", "Chennai">>
    /\ Len(all_data) = 2
    /\ all_data[1].rows # <<>> /\ all_data[2].rows # <<>>
    /\ result.rows[1].location = "Delhi"
    /\ result.rows[Len(result.rows)].location = "Chennai"

\* C24: the requests of a run come one at a time and in the order of the
\* pairs. A registry request is made for the current pair i only, after
\* those of the pairs before it and with no lookup of another pair under
\* way; an archive lookup is made only after the registry request of its
\* pair, and the k-th lookup of a pair is of site number (k-1) div n and day
\* number (k-1) mod n of the n days, so sites come in registry order and
\* days ascending within a site; the next registry request is made only
\* after the last lookup of the pair; a step makes at most one request, and
\* all_data is added to only between the last lookup of a pair and the next
\* registry request.
C24_SequentialByLocation ==
    /\ [](pc \in {"fetch", "aggregate"}
            => /\ requests # <<>>
               /\ requests[Len(requests)].pair = i
               /\ \A j, k \in 1..Len(requests) : j < k => requests[j].pair < requests[k].pair
               /\ pc = "aggregate" => Len(attempts) = Len(CurrentUnits))
    /\ [][/\ requests' # requests
             => /\ pc = "pair"
                /\ Len(requests') = Len(requests) + 1
                /\ requests'[Len(requests')].pair = i
                /\ attempts = <<>> /\ attempts' = <<>>
                /\ all_data' = all_data
          /\ (attempts' # attempts /\ attempts' # <<>>)
             => /\ pc = "fetch" /\ pc' = "fetch"
                /\ requests' = requests
                /\ all_data' = all_data
                /\ Len(attempts') = Len(attempts) + 1
                /\ LET k == Len(attempts')
                       n == Len(RunDays(inp))
                   IN /\ attempts'[k].site = location_ids[((k - 1) \div n) + 1]
                      /\ attempts'[k].day = Strptime(inp.start_date)[1] + ((k - 1) % n)
          /\ (all_data' # all_data /\ pc # "idle")
             => /\ pc = "aggregate" /\ pc' = "pair"
                /\ requests' = requests]_vars

\* C24 witness: the fetch of the second pair is under way after the fetch
\* of the first pair, which looked up several units, was aggregated.
C24_Witness ==
    /\ pc = "fetch"
    /\ i = 2
    /\ Len(requests) = 2
    /\ Len(all_data) = 1
    /\ Len(attempts) >= 2
    /\ Len(location_ids) * Len(RunDays(inp)) > Len(attempts)

\* C25: a box given in the order the tool documents, [south, north, west,
\* east], is sent to the registry as west, south, east, north, that is as
\* its third, first, fourth and second number.
C25_DocumentedOrderAccepted ==
    \A k \in 1..Len(requests) :
        LET b == inp.bounding_boxes[requests[k].pair]
            r == requests[k].bbox
        IN (IsBox(b) /\ b[1] <= b[2] /\ b[3] <= b[4])
           => r = <<b[3], b[1], b[4], b[2]>>

\* A date string in the documented form: YYYY-MM-DD, month and day padded.
WellFormedDate(s) ==
    Len(s) = 10 /\ s[5] = "-" /\ s[8] = "-" /\ StrptimeYmd(s) # <<>>

\* The value returned is the error with this message, in the form of the
\* implementation.
IsParserError(r, message) ==
    /\ r.kind = "return"
    /\ r.summary = NoSummary
    /\ IF impl = "crewai"
       THEN r.form = "str" /\ r.text = <<"Error: ", message>>
       ELSE r.form = "dict" /\ r.key = "error" /\ r.text = <<message>>

\* The value returned is the validated input: the four arguments as given.
IsValidatedInput(r) ==
    /\ r.kind = "return"
    /\ IF impl = "crewai"
       THEN r.form = "str" /\ r.text = <<"Validated Input: ">>
       ELSE r.form = "dict" /\ r.key = "validated_input"
    /\ r.summary = [locations |-> p_args.locations, start_date |-> p_args.start_date,
                    end_date |-> p_args.end_date, parameters |-> p_args.aq_parameters]

\* C28: the input parser always returns. Without a location it returns the
\* location error; else without a parameter the parameter error; and for
\* dates in the documented form YYYY-MM-DD it returns the validated input
\* exactly when there is a location, a parameter and the start date is
\* before the end date, and the date error when only that fails. So a
\* request for a single day is rejected by the parser, while the date check of
\* main.py rejects only a start after the end and accepts it, and the date
\* range of the fetch for it has one day.
C28_ParserChecksInOrder ==
    p_pc = "returned" =>
        LET a == p_args
            r == p_return
            documented == WellFormedDate(a.start_date) /\ WellFormedDate(a.end_date)
            start == StrptimeYmd(a.start_date)[1]
            end == StrptimeYmd(a.end_date)[1]
        IN /\ r.kind = "return"
           /\ IsParserError(r, LocationMessage) \/ IsParserError(r, ParameterMessage)
                \/ IsParserError(r, DateMessage) \/ IsValidatedInput(r)
           /\ a.locations = <<>> => IsParserError(r, LocationMessage)
           /\ (a.locations # <<>> /\ a.aq_parameters = <<>>)
                => IsParserError(r, ParameterMessage)
           /\ documented =>
                /\ IsValidatedInput(r) <=> /\ a.locations # <<>>
                                           /\ a.aq_parameters # <<>>
                                           /\ DateAfter(end, start)
                /\ (a.locations # <<>> /\ a.aq_parameters # <<>> /\ ~DateAfter(end, start))
                     => IsParserError(r, DateMessage)
                /\ MainAcceptsDates(a.start_date, a.end_date) <=> ~DateAfter(start, end)
                /\ (a.locations # <<>> /\ a.aq_parameters # <<>> /\ start = end)
                     => /\ IsParserError(r, DateMessage)
                        /\ MainAcceptsDates(a.start_date, a.end_date)
                        /\ DateRange(start[3], end[3]) = <<start[3]>>

\* C28 witness: a request with a location and a parameter for the single day
\* 2023-01-05 got the date error from the parser.
C28_Witness ==
    /\ p_pc = "returned"
    /\ p_args.locations # <<>>
    /\ p_args.aq_parameters # <<>>
    /\ p_args.start_date = FormatDate(2023, 1, 5, TRUE)
    /\ p_args.end_date = p_args.start_date
    /\ IsParserError(p_return, DateMessage)
    /\ MainAcceptsDates(p_args.start_date, p_args.end_date)

\* The number of pairs a run may process: the length of the shorter list.
ShorterLength ==
    IF Len(inp.bounding_boxes) <= Len(inp.locations)
    THEN Len(inp.bounding_boxes) ELSE Len(inp.locations)

\* Nothing else makes the run fail: the dates parse, the first boxes are
\* boxes and no registry request failed.
NoOtherFailure ==
    /\ DatesParse(inp)
    /\ \A k \in 1..ShorterLength : IsBox(inp.bounding_boxes[k])
    /\ \A r \in 1..Len(requests) : requests[r].ok

\* C29: in a run whose box list and name list differ in length, the pairs
\* processed are the first min(len(boxes), len(locations)) ones: every
\* registry request is for one of them and carries the box at its position,
\* no pair is requested twice, every frame added is built after the request
\* for box i and tagged with name i, so no row carries a surplus name; a run
\* that returns a frame has made one request for each of these pairs in
\* order, and the surplus raises nothing: a run in which nothing else fails
\* returns a frame.
C29_ShorterListDecides ==
    /\ []((pc # "idle" /\ Len(inp.bounding_boxes) # Len(inp.locations))
            => /\ i <= ShorterLength + 1
               /\ \A r \in 1..Len(requests) :
                    LET b == inp.bounding_boxes[requests[r].pair]
                    IN /\ requests[r].pair \in 1..ShorterLength
                       /\ IsBox(b) => requests[r].bbox = <<b[2], b[1], b[4], b[3]>>
                       /\ \A q \in 1..Len(requests) :
                            requests[q].pair = requests[r].pair => q = r
               /\ \A f \in 1..Len(all_data) : \A r \in 1..Len(all_data[f].rows) :
                    \E k \in 1..ShorterLength :
                       all_data[f].rows[r].location = inp.locations[k]
               /\ (pc = "done" /\ result.kind = "frame")
                    => /\ Len(requests) = ShorterLength
                       /\ \A k \in 1..ShorterLength : requests[k].pair = k
                       /\ result.rows = ConcatRows(all_data)
               /\ (pc = "done" /\ NoOtherFailure) => result.kind = "frame")
    /\ [][(/\ Len(inp.bounding_boxes) # Len(inp.locations)
           /\ pc = "aggregate"
           /\ all_data' # all_data)
            => LET f == all_data'[Len(all_data')]
                   b == inp.bounding_boxes[i]
               IN /\ i \in 1..ShorterLength
                  /\ requests[Len(requests)].pair = i
                  /\ requests[Len(requests)].bbox = <<b[2], b[1], b[4], b[3]>>
                  /\ \A r \in 1..Len(f.rows) : f.rows[r].location = inp.locations[i]]_vars

\* C29 witness: a run given two different boxes and one name returned rows
\* after a single registry request, for the first box.
C29_Witness ==
    /\ pc = "done"
    /\ Len(inp.bounding_boxes) = 2
    /\ inp.bounding_boxes[1] # inp.bounding_boxes[2]
    /\ Len(inp.locations) = 1
    /\ result.kind = "frame"
    /\ result.rows # <<>>
    /\ Len(requests) = 1
    /\ requests[1].pair = 1

\* Both dates are dates and the start is later than the end.
StartAfterEnd ==
    /\ DatesParse(inp)
    /\ Strptime(inp.start_date)[1] > Strptime(inp.end_date)[1]

\* C30: in a run whose dates are both dates with the start later than the
\* end, no archive lookup is ever made and no frame is collected; the run
\* ends, and with one registry request for each pair in order it returns the
\* frame of no rows with the columns date, parameter, unit, value, location.
\* It raises nothing on account of the dates: the crewai tool always returns
\* that frame, the cai tool raises only where a registry request failed or
\* the box is the resolver's message.
C30_InvertedRangeEmptyResult ==
    (pc # "idle" /\ StartAfterEnd)
        => /\ attempts = <<>>
           /\ all_data = <<>>
           /\ consolidated_df = <<>>
           /\ \A r \in 1..Len(requests) : requests[r].pair = r
           /\ (pc = "done" /\ result.kind = "frame")
                => /\ Len(requests) = ZipLen(inp)
                   /\ result.rows = <<>>
                   /\ result.columns = <<"date", "parameter", "unit", "value", "location">>
           /\ (pc = "done" /\ result.kind # "frame")
                => /\ impl = "cai"
                   /\ i <= ZipLen(inp)
                   /\ \/ ~IsBox(inp.bounding_boxes[i])
                      \/ requests # <<>> /\ ~requests[Len(requests)].ok

\* C30 witness: a run over two pairs from day MaxDay to day 1 ended with the
\* empty frame after two registry requests, the last of which found sites.
C30_Witness ==
    /\ pc = "done"
    /\ StartAfterEnd
    /\ Len(requests) = 2
    /\ requests[1].ok /\ requests[2].ok
    /\ location_ids # <<>>
    /\ attempts = <<>>
    /\ result.kind = "frame"
    /\ result.rows = <<>>
====
